---------------------------- MODULE Spec2Model ----------------------------
(***************************************************************************)
(* Model of src/src/moderation/service.py (ModerationService): the chunker *)
(* _chunk_text, the cached and retried remote classification               *)
(* _create_moderation, and the per-song loop of run with its aggregation.  *)
(*                                                                         *)
(* Texts are sequences of one-character strings.  Scores are fixed-point   *)
(* levels 0..MaxScore standing for the floats of [0, 1].  The asyncio      *)
(* event loop is modelled by its atomic steps: a coroutine runs from one   *)
(* await to the next without interleaving.                                 *)
(***************************************************************************)
EXTENDS Integers, Sequences, FiniteSets, TLC

(***************************************************************************)
(* Bounds of the model.                                                    *)
(***************************************************************************)
MaxRetries == 1
MaxScore == 1
MaxVerdicts == 2
MaxLen == 6
MaxChunkSize == 3
MaxSleeps == 3

(***************************************************************************)
(* Program constants.                                                      *)
(***************************************************************************)
COLS == <<"violence", "self_harm", "sexual", "harassment", "hate">>

Cols == {COLS[k] : k \in 1..Len(COLS)}

Songs == {"s1", "s2"}

Chars == {"a", "b", " "}

Whitespace == {" "}

None == "None"

(***************************************************************************)
(* Python helpers.                                                         *)
(***************************************************************************)
Min(a, b) == IF a <= b THEN a ELSE b

Max(a, b) == IF a >= b THEN a ELSE b

RECURSIVE LStrip(_)
LStrip(s) ==
    IF s # <<>> /\ Head(s) \in Whitespace THEN LStrip(Tail(s)) ELSE s

RECURSIVE RStrip(_)
RStrip(s) ==
    IF s # <<>> /\ s[Len(s)] \in Whitespace
    THEN RStrip(SubSeq(s, 1, Len(s) - 1))
    ELSE s

\* Mutant: strip() left out, the text is used as it was read.
StripNone(s) == s

\* str.strip(): leading and trailing whitespace removed.
Strip(s) == RStrip(LStrip(s))

\* Mutant: a negative index is taken by its magnitude instead of counting
\* from the end.
SliceIndexNoWrap(n, k) == IF k < 0 THEN Min(0 - k, n) ELSE Min(k, n)

\* A slice index as Python normalises it against a sequence of length n:
\* a negative index counts from the end, and the result is clamped to 0..n.
SliceIndex(n, k) == IF k < 0 THEN Max(n + k, 0) ELSE Min(k, n)

\* Mutant: the slice stops one character early.
SliceBoundsShort(n, start, stop) ==
    LET lo == SliceIndex(n, start)
        hi == SliceIndex(n, stop - 1)
    IN  <<lo, Max(lo, hi)>>

\* text[start : stop] as the half-open window <<lo, hi>> of positions lo..hi-1.
SliceBounds(n, start, stop) ==
    LET lo == SliceIndex(n, start)
        hi == SliceIndex(n, stop)
    IN  <<lo, Max(lo, hi)>>

\* Mutant: the final slice takes the whole text.
SliceFromWhole(n, start) == <<0, n>>

\* text[start :]
SliceFrom(n, start) == <<SliceIndex(n, start), n>>

\* The characters of a window.
Window(text, w) == SubSeq(text, w[1] + 1, w[2])

(***************************************************************************)
(* _chunk_text: the windows of the for loop over range(0, len(text),       *)
(* slide), from loop index i on.  n is len(text) after the strip.  The     *)
(* range is exhausted at i >= n when it counts up and at i <= n when it    *)
(* counts down; a step of 0 makes range() raise (see Dispatch).            *)
(***************************************************************************)
\* Mutant: the loop breaks without yielding the final window.
RECURSIVE ChunkWindowsDropTail(_, _, _, _)
ChunkWindowsDropTail(n, size, step, i) ==
    IF (step > 0 /\ i >= n) \/ (step < 0 /\ i <= n)
    THEN <<>>
    ELSE IF (i + size) < n
         THEN <<SliceBounds(n, i, i + size)>>
                  \o ChunkWindowsDropTail(n, size, step, i + step)
         ELSE <<>>

\* Mutant: the loop goes on while i + chunk_size <= len(text).
RECURSIVE ChunkWindowsInclusive(_, _, _, _)
ChunkWindowsInclusive(n, size, step, i) ==
    IF (step > 0 /\ i >= n) \/ (step < 0 /\ i <= n)
    THEN <<>>
    ELSE IF (i + size) <= n
         THEN <<SliceBounds(n, i, i + size)>>
                  \o ChunkWindowsInclusive(n, size, step, i + step)
         ELSE <<SliceFrom(n, 0 - size)>>

RECURSIVE ChunkWindowsFrom(_, _, _, _)
ChunkWindowsFrom(n, size, step, i) ==
    IF (step > 0 /\ i >= n) \/ (step < 0 /\ i <= n)
    THEN <<>>
    ELSE IF (i + size) < n
         THEN <<SliceBounds(n, i, i + size)>>
                  \o ChunkWindowsFrom(n, size, step, i + step)
         ELSE <<SliceFrom(n, 0 - size)>>

ChunkWindows(n, size, step) == ChunkWindowsFrom(n, size, step, 0)

\* list(self._chunk_text(text)): each window's characters, stripped.
ChunkText(text, size, step) ==
    LET t == Strip(text)
        ws == ChunkWindows(Len(t), size, step)
    IN  [k \in 1..Len(ws) |-> Strip(Window(t, ws[k]))]


(***************************************************************************)
(* The remote service's answer and its cached form.                        *)
(***************************************************************************)
\* One moderation result: the fields of response.results[0] that run reads.
Moderation(flagged, categories, category_scores) ==
    [flagged |-> flagged, categories |-> categories,
     category_scores |-> category_scores]

\* A result in which category c alone carries (flag, score).
Single(flagged, c, flag, score) ==
    Moderation(flagged,
               [d \in Cols |-> IF d = c THEN flag ELSE FALSE],
               [d \in Cols |-> IF d = c THEN score ELSE 0])

\* A result in which every category carries (flag, score).
Uniform(flagged, flag, score) ==
    Moderation(flagged, [d \in Cols |-> flag], [d \in Cols |-> score])

\* The results the aggregation is exercised on.
VerdictPool ==
    {Single(f, c, g, s) : f \in BOOLEAN, c \in Cols, g \in BOOLEAN, s \in 0..MaxScore}
        \cup {Uniform(f, g, s) : f \in BOOLEAN, g \in BOOLEAN, s \in 0..MaxScore}

\* The results the service of the pipeline model answers with.
ServiceVerdicts == {Uniform(FALSE, FALSE, 0), Single(TRUE, "hate", TRUE, MaxScore)}

\* The value of a task that has not returned.
NoResult == [none |-> TRUE]

\* response.results[0].model_dump(mode="json")
ModelDump(response) == response.results[1]

Digits == <<"0", "1", "2", "3", "4", "5", "6", "7", "8", "9">>

FormatBool(b) == IF b THEN "true" ELSE "false"

FormatNum(n) == Digits[n + 1]

\* json.dumps(result): the literals of the document, in COLS order.
Dumps(result) ==
    <<FormatBool(result.flagged)>>
        \o [k \in 1..Len(COLS) |-> FormatBool(result.categories[COLS[k]])]
        \o [k \in 1..Len(COLS) |-> FormatNum(result.category_scores[COLS[k]])]

IsBoolLit(s) == s \in {"true", "false"}

IsNumLit(s) == \E n \in 0..9 : Digits[n + 1] = s

\* Mutant: bool(s), true of every non-empty literal.
ParseBoolTruthy(s) == s # ""

ParseBool(s) == s = "true"

ParseNum(s) == CHOOSE n \in 0..9 : Digits[n + 1] = s

\* Whether json.loads accepts the document.
Decodable(content) ==
    /\ Len(content) = 1 + 2 * Len(COLS)
    /\ \A k \in 1..(1 + Len(COLS)) : IsBoolLit(content[k])
    /\ \A k \in (2 + Len(COLS))..(1 + 2 * Len(COLS)) : IsNumLit(content[k])

ColIndex(c) == CHOOSE k \in 1..Len(COLS) : COLS[k] = c

\* json.loads(content) of a decodable document.
Loads(content) ==
    Moderation(ParseBool(content[1]),
               [c \in Cols |-> ParseBool(content[1 + ColIndex(c)])],
               [c \in Cols |-> ParseNum(content[1 + Len(COLS) + ColIndex(c)])])

\* A cache file that json.loads rejects: a file of zero bytes.
Corrupt == <<>>

CharCode(c) == CASE c = "a" -> 1 [] c = "b" -> 2 [] OTHER -> 3

\* hashlib.md5(text.encode()).hexdigest(): a digest of the content, free of
\* collisions on the texts of the model.
RECURSIVE Md5(_)
Md5(text) ==
    IF text = <<>> THEN 0
    ELSE CharCode(text[Len(text)]) + 4 * Md5(SubSeq(text, 1, Len(text) - 1))

(***************************************************************************)
(* The aggregation of run.                                                 *)
(***************************************************************************)
\* any(...) over a list of booleans.
RECURSIVE AnyOf(_)
AnyOf(bs) == IF bs = <<>> THEN FALSE ELSE IF Head(bs) THEN TRUE ELSE AnyOf(Tail(bs))

\* Mutant: the last element instead of the largest.
RECURSIVE MaxOfLast(_)
MaxOfLast(xs) == IF Len(xs) = 1 THEN xs[1] ELSE MaxOfLast(Tail(xs))

\* max(...) over a non-empty list of numbers.
RECURSIVE MaxOf(_)
MaxOf(xs) ==
    IF Len(xs) = 1 THEN xs[1]
    ELSE LET m == MaxOf(Tail(xs)) IN IF m > Head(xs) THEN m ELSE Head(xs)

ScoreKey(c) ==
    CASE c = "violence" -> "violence_score"
      [] c = "self_harm" -> "self_harm_score"
      [] c = "sexual" -> "sexual_score"
      [] c = "harassment" -> "harassment_score"
      [] c = "hate" -> "hate_score"

FlagKey(c) ==
    CASE c = "violence" -> "violence_flag"
      [] c = "self_harm" -> "self_harm_flag"
      [] c = "sexual" -> "sexual_flag"
      [] c = "harassment" -> "harassment_flag"
      [] c = "hate" -> "hate_flag"

\* Mutant: the first chunk's flagged alone.
FlaggedFirstChunk(moderations) == moderations[1].flagged

\* flagged = any(r["flagged"] for r in moderations)
Flagged(moderations) ==
    AnyOf([k \in 1..Len(moderations) |-> moderations[k].flagged])

\* Mutant: the score of the first result is taken.
CategoryScoreFirst(moderations, c) == moderations[1].category_scores[c]

\* max(r["category_scores"][c] for r in moderations)
CategoryScore(moderations, c) ==
    MaxOf([k \in 1..Len(moderations) |-> moderations[k].category_scores[c]])

\* Mutant: all(...) instead of any(...).
CategoryFlagAll(moderations, c) ==
    \A k \in 1..Len(moderations) : moderations[k].categories[c]

\* any(r["categories"][c] for r in moderations)
CategoryFlag(moderations, c) ==
    AnyOf([k \in 1..Len(moderations) |-> moderations[k].categories[c]])

\* Mutant: the record does not carry the id of its song.
ModerationResultUntagged(song_id, moderations) ==
    [key \in {"song_id", "flagged"} \cup {ScoreKey(c) : c \in Cols}
                 \cup {FlagKey(c) : c \in Cols} |->
        IF key = "song_id" THEN None
        ELSE IF key = "flagged" THEN Flagged(moderations)
        ELSE IF \E c \in Cols : key = ScoreKey(c)
             THEN CategoryScore(moderations, CHOOSE c \in Cols : key = ScoreKey(c))
             ELSE CategoryFlag(moderations, CHOOSE c \in Cols : key = FlagKey(c))]

\* The record run yields for a song.
ModerationResult(song_id, moderations) ==
    [key \in {"song_id", "flagged"} \cup {ScoreKey(c) : c \in Cols}
                 \cup {FlagKey(c) : c \in Cols} |->
        IF key = "song_id" THEN song_id
        ELSE IF key = "flagged" THEN Flagged(moderations)
        ELSE IF \E c \in Cols : key = ScoreKey(c)
             THEN CategoryScore(moderations, CHOOSE c \in Cols : key = ScoreKey(c))
             ELSE CategoryFlag(moderations, CHOOSE c \in Cols : key = FlagKey(c))]

(***************************************************************************)
(* The state of a ModerationService and of one run of it.                  *)
(***************************************************************************)
VARIABLES
    overwrite,      \* self.overwrite
    max_retries,    \* self.max_retries
    chunk_size,     \* self.chunk_size
    slide,          \* self.slide
    cache,          \* the files of self.moderation_dir: digest -> content
    service,        \* the remote service: the result it gives each text it was sent
    todo,           \* the song ids the for loop of run has not reached
    song_id,        \* the loop variable of run
    lyrics,         \* the local lyrics of run
    tasks,          \* the tasks asyncio.gather runs for the song's chunks
    moderations,    \* the local moderations of run
    runState,       \* where run stands
    exc,            \* the exception set on the gather future or raised by run
    records,        \* the records run has yielded
    returned        \* history: the _create_moderation calls that returned

vars == <<overwrite, max_retries, chunk_size, slide, cache, service, todo,
          song_id, lyrics, tasks, moderations, runState, exc, records, returned>>

config == <<overwrite, max_retries, chunk_size, slide>>

\* openai.OpenAIError and the subclasses the client raises: a transient
\* failure and a permanent one.  The except clause tells none of them apart.
Retryable == {"APITimeoutError"}

NonRetryable == {"AuthenticationError"}

OpenAIError == Retryable \cup NonRetryable

\* The lyrics files of the pipeline model and the chunk texts they give with
\* chunk_size = slide = 2: one chunk, the same chunk twice, two different
\* chunks, and no chunk at all.
LyricsPool ==
    {<<"a", "b">>, <<"a", "b", "a", "b">>, <<"a", "b", "b", "a">>, <<" ">>}

ChunkPool == {<<"a", "b">>, <<"b", "a">>}

\* Every text of at most MaxLen characters.
RECURSIVE TextsOfLen(_)
TextsOfLen(n) ==
    IF n = 0 THEN {<<>>}
    ELSE {Append(t, c) : t \in TextsOfLen(n - 1), c \in Chars}

AllTexts == UNION {TextsOfLen(n) : n \in 0..MaxLen}

\* A coroutine self._create_moderation(text) that gather has wrapped in a
\* task: its argument, where it stands (start, call, sleep, done, raised),
\* its local n_retries, and what it returned or raised.  History fields:
\* calls (the outcome of each remote call it issued, in order), seen (what
\* its lookup found: absent, decodable, corrupt), wrote (the cache writes it
\* made) and prior (the calls for the same text that had returned when it
\* started).  delay is the argument of the asyncio.sleep the task is in, in
\* thousandths of a second, and 0 when it is not sleeping.
NewTask(text) ==
    [text |-> text, pc |-> "start", n_retries |-> 0, calls |-> <<>>,
     seen |-> "unread", result |-> NoResult, error |-> "none",
     wrote |-> <<>>, prior |-> {}, delay |-> 0]

\* The remote calls a task has issued: those answered and the one in flight.
Attempts(task) == Len(task.calls) + (IF task.pc = "call" THEN 1 ELSE 0)

\* cache_hash: the name of the cache file of a text.
CacheKey(text) == Md5(text)

\* Mutant: the cache file is never looked at.
CacheHitNever(h) == FALSE

\* Mutant: the overwrite flag is ignored.
CacheHitIgnoringOverwrite(h) == h \in DOMAIN cache

\* cache_file.exists() and not self.overwrite
CacheHit(h) == h \in DOMAIN cache /\ ~overwrite

\* Mutant: the file is opened for appending.
WriteTextAppend(files, h, content) ==
    [k \in DOMAIN files \cup {h} |->
        IF k # h THEN files[k]
        ELSE IF h \in DOMAIN files THEN files[h] \o content ELSE content]

\* Mutant: the write is skipped.
WriteTextSkipped(files, h, content) == files

\* cache_file.write_text(content)
WriteText(files, h, content) ==
    [k \in DOMAIN files \cup {h} |-> IF k = h THEN content ELSE files[k]]

\* Mutant: the loop never gives up.
RetriesExhaustedNever(n_retries) == FALSE

\* Mutant: one retry too many.
RetriesExhaustedLate(n_retries) == n_retries > max_retries

\* n_retries >= self.max_retries
RetriesExhausted(n_retries) == n_retries >= max_retries

\* Mutant: the exception of a task is never set on the gather future.
FirstExceptionLost(e) == exc

\* random.random(), in thousandths: the ends of [0, 1).
Jitter == {0, 999}

\* Mutant: the wait is computed before the retry is counted.
BackoffEarly(n_retries, jitter) == (2 ^ (n_retries - 1)) * 1000 + jitter

\* 2**n_retries + random.random(), in thousandths of a second.
Backoff(n_retries, jitter) == (2 ^ n_retries) * 1000 + jitter

\* The exception of the gather future: the first one a task raised.
FirstException(e) == IF exc = "none" THEN e ELSE exc

\* A call that returned, as the history keeps it.
Returned(task) ==
    [text |-> task.text, result |-> task.result, attempts |-> Len(task.calls)]

(***************************************************************************)
(* _create_moderation, one action per stretch between two awaits.  The     *)
(* event loop runs its ready queue in order: gather has queued the first   *)
(* stretch of every task, in chunk order, before run suspends, so these    *)
(* stretches run in that order and before any response, timeout or wake-up *)
(* of run is handled.                                                      *)
(***************************************************************************)
\* The first stretch of every task before task t has run.
StartedBefore(t) == \A u \in DOMAIN tasks : u < t => tasks[u].pc # "start"

\* The first stretch of every task has run.
AllStarted == \A u \in DOMAIN tasks : tasks[u].pc # "start"

\* From the call to the first await: the cache lookup, and on a miss the
\* first remote call.
TaskStart(t) ==
    LET task == tasks[t]
        h == CacheKey(task.text)
        looked == [task EXCEPT !.seen = IF h \notin DOMAIN cache THEN "absent"
                                        ELSE IF Decodable(cache[h]) THEN "decodable"
                                        ELSE "corrupt",
                               !.prior = {r \in returned : r.text = task.text}]
    IN  /\ task.pc = "start"
        /\ StartedBefore(t)
        /\ IF CacheHit(h)
           THEN IF Decodable(cache[h])
                THEN LET done == [looked EXCEPT !.pc = "done", !.result = Loads(cache[h])]
                     IN  /\ tasks' = [tasks EXCEPT ![t] = done]
                         /\ returned' = returned \cup {Returned(done)}
                         /\ exc' = exc
                ELSE /\ tasks' = [tasks EXCEPT ![t] =
                                    [looked EXCEPT !.pc = "raised", !.error = "JSONDecodeError"]]
                     /\ exc' = FirstException("JSONDecodeError")
                     /\ returned' = returned
           ELSE /\ tasks' = [tasks EXCEPT ![t] = [looked EXCEPT !.pc = "call"]]
                /\ UNCHANGED <<exc, returned>>
        /\ UNCHANGED <<config, cache, service, todo, song_id, lyrics, moderations,
                       runState, records>>

\* The remote call returns a response: the result is written to the cache
\* file and returned.  The service classifies a text the same way every
\* time it is sent during a run.
RemoteOk(t, answer) ==
    LET task == tasks[t]
        h == CacheKey(task.text)
        response == [results |-> Append(<<>>, answer)]
        result == ModelDump(response)
        done == [task EXCEPT !.pc = "done", !.result = result,
                             !.calls = Append(@, "ok"),
                             !.wrote = Append(@, <<h, Dumps(result)>>)]
    IN  /\ task.pc = "call"
        /\ AllStarted
        /\ task.text \in DOMAIN service => answer = service[task.text]
        /\ service' = [x \in DOMAIN service \cup {task.text} |->
                          IF x = task.text THEN answer ELSE service[x]]
        /\ cache' = WriteText(cache, h, Dumps(result))
        /\ tasks' = [tasks EXCEPT ![t] = done]
        /\ returned' = returned \cup {Returned(done)}
        /\ UNCHANGED <<config, todo, song_id, lyrics, moderations, runState, exc,
                       records>>

\* The remote call raises an openai.OpenAIError: raise it when the retries
\* are used up, else count the retry and sleep for the backoff.
RemoteFail(t, e, jitter) ==
    LET task == tasks[t]
        failed == [task EXCEPT !.calls = Append(@, e)]
    IN  /\ task.pc = "call"
        /\ AllStarted
        /\ IF RetriesExhausted(task.n_retries)
           THEN /\ tasks' = [tasks EXCEPT ![t] =
                               [failed EXCEPT !.pc = "raised", !.error = e]]
                /\ exc' = FirstException(e)
           ELSE /\ tasks' = [tasks EXCEPT ![t] =
                               [failed EXCEPT !.pc = "sleep",
                                              !.n_retries = task.n_retries + 1,
                                              !.delay = Backoff(task.n_retries + 1,
                                                                jitter)]]
                /\ exc' = exc
        /\ UNCHANGED <<config, cache, service, todo, song_id, lyrics, moderations,
                       runState, records, returned>>

\* asyncio.sleep ends: the loop issues the next remote call.
SleepDone(t) ==
    /\ tasks[t].pc = "sleep"
    /\ tasks' = [tasks EXCEPT ![t] = [@ EXCEPT !.pc = "call", !.delay = 0]]
    /\ UNCHANGED <<config, cache, service, todo, song_id, lyrics, moderations,
                   runState, exc, records, returned>>

(***************************************************************************)
(* run.                                                                    *)
(***************************************************************************)
\* Mutant: the loop takes the next song while the gather of the current
\* one is still awaited.
DispatchOverlapping(s, text) ==
    LET chunks == ChunkText(text, chunk_size, slide)
    IN  /\ runState \in {"idle", "gather"}
        /\ s \in todo
        /\ todo' = todo \ {s}
        /\ song_id' = s
        /\ lyrics' = text
        /\ tasks' = [k \in 1..Len(chunks) |-> NewTask(chunks[k])]
        /\ runState' = "gather"
        /\ exc' = exc
        /\ UNCHANGED <<config, cache, service, moderations, records, returned>>

\* The for loop takes a song whose lyrics file holds text: load it, chunk it
\* and hand one coroutine per chunk to asyncio.gather.  With a slide of 0
\* range() raises ValueError when the arguments of gather are collected.
Dispatch(s, text) ==
    LET chunks == ChunkText(text, chunk_size, slide)
    IN  /\ runState = "idle"
        /\ s \in todo
        /\ todo' = todo \ {s}
        /\ song_id' = s
        /\ lyrics' = text
        /\ IF slide = 0
           THEN /\ tasks' = tasks
                /\ runState' = "raised"
                /\ exc' = "ValueError"
           ELSE /\ tasks' = [k \in 1..Len(chunks) |-> NewTask(chunks[k])]
                /\ runState' = "gather"
                /\ exc' = exc
        /\ UNCHANGED <<config, cache, service, moderations, records, returned>>

\* Mutant: a song without a lyrics file is skipped and the loop goes on.
LoadSkips(s) ==
    /\ runState = "idle"
    /\ s \in todo
    /\ todo' = todo \ {s}
    /\ song_id' = s
    /\ runState' = "idle"
    /\ exc' = exc
    /\ UNCHANGED <<config, cache, service, lyrics, tasks, moderations, records,
                   returned>>

\* The for loop takes a song that has no lyrics file: read_text raises.
LoadFails(s) ==
    /\ runState = "idle"
    /\ s \in todo
    /\ todo' = todo \ {s}
    /\ song_id' = s
    /\ runState' = "raised"
    /\ exc' = "FileNotFoundError"
    /\ UNCHANGED <<config, cache, service, lyrics, tasks, moderations, records,
                   returned>>

\* Every task has returned: gather gives run the results in chunk order.
GatherDone ==
    /\ runState = "gather"
    /\ \A t \in DOMAIN tasks : tasks[t].pc = "done"
    /\ moderations' = [t \in DOMAIN tasks |-> tasks[t].result]
    /\ tasks' = <<>>
    /\ runState' = "aggregate"
    /\ UNCHANGED <<config, cache, service, todo, song_id, lyrics, exc, records,
                   returned>>

\* A task has raised: gather passes the first exception on to run, which
\* raises it once it is woken up; the other tasks are not cancelled.
GatherRaise ==
    /\ runState = "gather"
    /\ exc # "none"
    /\ AllStarted
    /\ runState' = "raised"
    /\ UNCHANGED <<config, cache, service, todo, song_id, lyrics, tasks,
                   moderations, exc, records, returned>>

\* The aggregation and the yield; max() of no moderations raises ValueError.
YieldRecord ==
    /\ runState = "aggregate"
    /\ IF moderations = <<>>
       THEN /\ runState' = "raised"
            /\ exc' = "ValueError"
            /\ records' = records
       ELSE /\ runState' = "idle"
            /\ exc' = exc
            /\ records' = Append(records, ModerationResult(song_id, moderations))
    /\ UNCHANGED <<config, cache, service, todo, song_id, lyrics, tasks,
                   moderations, returned>>

\* The for loop is exhausted: the generator ends.
RunFinish ==
    /\ runState = "idle"
    /\ todo = {}
    /\ runState' = "finished"
    /\ UNCHANGED <<config, cache, service, todo, song_id, lyrics, tasks,
                   moderations, exc, records, returned>>

(***************************************************************************)
(* The pipeline: a service constructed over Songs, and one run of it.      *)
(***************************************************************************)
\* The cache directories a service can be constructed over.
CacheFiles ==
    UNION {[H -> {Corrupt} \cup {Dumps(v) : v \in ServiceVerdicts}] :
              H \in SUBSET {CacheKey(x) : x \in ChunkPool}}

Constructed ==
    /\ service = <<>>
    /\ todo = Songs
    /\ song_id = None
    /\ lyrics = <<>>
    /\ tasks = <<>>
    /\ moderations = <<>>
    /\ runState = "idle"
    /\ exc = "none"
    /\ records = <<>>
    /\ returned = {}

Init ==
    /\ overwrite \in BOOLEAN
    /\ max_retries \in {0, MaxRetries}
    /\ chunk_size = 2
    /\ slide = 2
    /\ cache \in CacheFiles
    /\ Constructed

Next ==
    \/ \E s \in Songs, text \in LyricsPool : Dispatch(s, text)
    \/ \E s \in Songs : LoadFails(s)
    \/ \E t \in DOMAIN tasks : TaskStart(t)
    \/ \E t \in DOMAIN tasks, v \in ServiceVerdicts : RemoteOk(t, v)
    \/ \E t \in DOMAIN tasks, e \in OpenAIError, j \in Jitter : RemoteFail(t, e, j)
    \/ \E t \in DOMAIN tasks : SleepDone(t)
    \/ GatherDone
    \/ GatherRaise
    \/ YieldRecord
    \/ RunFinish

Spec == Init /\ [][Next]_vars

(***************************************************************************)
(* The pipeline under the event loop's scheduling: a callback that is      *)
(* ready is run, every remote call is answered or times out, every sleep   *)
(* ends, and the caller of run keeps iterating it.  Each of these is a     *)
(* step of Next, and a step that stays possible is taken.  A service with  *)
(* overwrite set never reads the files it finds (CacheHit is false), so it *)
(* is constructed over an empty directory here.                            *)
(***************************************************************************)
InitLive == Init /\ (overwrite => cache = <<>>)

FairSpec == InitLive /\ [][Next]_vars /\ WF_vars(Next)

(***************************************************************************)
(* The chunker on every text: a service with any valid chunk_size and      *)
(* slide, whose run loads a song and dispatches its chunks; the gather of  *)
(* no chunk is done at once and run goes on to the aggregation.            *)
(***************************************************************************)
InitChunk ==
    /\ overwrite = FALSE
    /\ max_retries = 0
    /\ chunk_size \in 1..MaxChunkSize
    /\ slide \in 1..chunk_size
    /\ cache = <<>>
    /\ Constructed

NextChunk ==
    \/ \E s \in Songs, text \in AllTexts : Dispatch(s, text)
    \/ GatherDone
    \/ YieldRecord

SpecChunk == InitChunk /\ [][NextChunk]_vars

(***************************************************************************)
(* The constructor takes any chunk_size and slide: a service with values   *)
(* around 0 and with a slide beyond chunk_size, whose run loads a song,    *)
(* dispatches its chunks and starts their tasks.                           *)
(***************************************************************************)
\* The texts of at most MaxChunkSize + 1 characters.
ParamTexts == UNION {TextsOfLen(n) : n \in 0..(MaxChunkSize + 1)}

InitParams ==
    /\ overwrite = FALSE
    /\ max_retries = 0
    /\ chunk_size \in (0 - 1)..MaxChunkSize
    /\ slide \in (0 - 1)..(MaxChunkSize + 1)
    /\ cache = <<>>
    /\ Constructed

NextParams ==
    \/ \E s \in Songs, text \in ParamTexts : Dispatch(s, text)
    \/ \E t \in DOMAIN tasks : TaskStart(t)
    \/ GatherDone
    \/ YieldRecord

SpecParams == InitParams /\ [][NextParams]_vars

(***************************************************************************)
(* The retry loop at depth: a service with up to MaxSleeps retries and an  *)
(* empty cache, and a run over songs of one chunk each.                    *)
(***************************************************************************)
InitRetry ==
    /\ overwrite = FALSE
    /\ max_retries \in 0..MaxSleeps
    /\ chunk_size = 2
    /\ slide = 2
    /\ cache = <<>>
    /\ Constructed

NextRetry ==
    \/ \E s \in Songs : Dispatch(s, <<"a", "b">>)
    \/ \E t \in DOMAIN tasks : TaskStart(t)
    \/ \E t \in DOMAIN tasks, v \in ServiceVerdicts : RemoteOk(t, v)
    \/ \E t \in DOMAIN tasks, e \in OpenAIError, j \in Jitter : RemoteFail(t, e, j)
    \/ \E t \in DOMAIN tasks : SleepDone(t)
    \/ GatherDone
    \/ GatherRaise
    \/ YieldRecord
    \/ RunFinish

SpecRetry == InitRetry /\ [][NextRetry]_vars

(***************************************************************************)
(* The aggregation on every list of results: run at the line after the     *)
(* gather, with the moderations of a song drawn from VerdictPool.          *)
(***************************************************************************)
InitAgg ==
    /\ overwrite = FALSE
    /\ max_retries = 0
    /\ chunk_size = 2
    /\ slide = 2
    /\ cache = <<>>
    /\ service = <<>>
    /\ song_id \in Songs
    /\ todo = Songs \ {song_id}
    /\ lyrics = <<>>
    /\ tasks = <<>>
    /\ \E n \in 1..MaxVerdicts : moderations \in [1..n -> VerdictPool]
    /\ runState = "aggregate"
    /\ exc = "none"
    /\ records = <<>>
    /\ returned = {}

NextAgg == YieldRecord

SpecAgg == InitAgg /\ [][NextAgg]_vars

(***************************************************************************)
(* Properties of _create_moderation.                                       *)
(***************************************************************************)
Task(t) == tasks[t]

OkCalls(task) == {k \in 1..Len(task.calls) : task.calls[k] = "ok"}

\* Every answered remote call of the task failed with a retryable error.
AllRetryable(task) ==
    /\ task.calls # <<>>
    /\ \A k \in 1..Len(task.calls) : task.calls[k] \in Retryable

\* C1: a call whose remote attempts all fail with a retryable error (a
\* timeout included) makes exactly max_retries + 1 attempts and then raises
\* the error to its caller; it never returns a verdict.
C1_RetryExhaustion ==
    \A t \in DOMAIN tasks :
        AllRetryable(Task(t)) =>
            /\ Attempts(Task(t)) <= max_retries + 1
            /\ Task(t).pc # "done"
            /\ Task(t).pc = "raised" <=> Len(Task(t).calls) = max_retries + 1
            /\ Task(t).pc = "raised" =>
                   /\ Task(t).error = Task(t).calls[Len(Task(t).calls)]
                   /\ Task(t).result = NoResult
                   /\ exc # "none"

C1_Witness ==
    \E t \in DOMAIN tasks :
        /\ AllRetryable(Task(t))
        /\ Task(t).seen = "absent"
        /\ max_retries >= 1
        /\ Task(t).pc = "raised"
        /\ Task(t).error = "APITimeoutError"

\* C2: a remote call that fails with a non-retryable error is the task's
\* only attempt: the task raises at once, whatever max_retries is.
C2_NonRetryableNeverRetried ==
    \A t \in DOMAIN tasks :
        \A k \in 1..Len(Task(t).calls) :
            Task(t).calls[k] \in NonRetryable =>
                /\ Task(t).pc = "raised"
                /\ Len(Task(t).calls) = 1

\* C3 as stated: with overwrite off, a call that follows a returned call for
\* the same text returns the same verdict, and the two calls together issue
\* at most one remote call.
C3_AtMostOneRemoteCall ==
    ~overwrite =>
        \A t \in DOMAIN tasks :
            \A r \in Task(t).prior :
                Task(t).pc = "done" =>
                    /\ r.attempts + Len(Task(t).calls) <= 1
                    /\ Task(t).result = r.result

\* C3 as amended: with overwrite off, a call that follows a returned call for
\* the same text issues no remote call and returns the same verdict; the
\* first call issued at most max_retries + 1 remote calls.
C3_CacheRoundTrip ==
    ~overwrite =>
        \A t \in DOMAIN tasks :
            \A r \in Task(t).prior :
                /\ Task(t).pc = "done"
                /\ Attempts(Task(t)) = 0
                /\ Task(t).result = r.result
                /\ r.attempts <= max_retries + 1

C3_Witness ==
    /\ ~overwrite
    /\ \E t \in DOMAIN tasks :
           /\ Task(t).pc = "done"
           /\ \E r \in Task(t).prior : r.attempts >= 2 /\ r.result.flagged

\* C4: a cache entry that cannot be deserialized is treated as a miss: the
\* call raises no decoding error and issues the remote call.
C4_CorruptEntryIsMiss ==
    \A t \in DOMAIN tasks :
        Task(t).seen = "corrupt" =>
            /\ Task(t).error # "JSONDecodeError"
            /\ Attempts(Task(t)) >= 1

\* C5: a call issues a remote call iff its lookup found no cache entry or
\* overwrite is set; on a hit with overwrite off it issues none, writes no
\* cache entry and returns the verdict the entry stores.
C5_CacheLookupDecides ==
    \A t \in DOMAIN tasks :
        Task(t).pc # "start" =>
            /\ Attempts(Task(t)) > 0 <=> (Task(t).seen = "absent" \/ overwrite)
            /\ (Task(t).seen # "absent" /\ ~overwrite) =>
                   /\ Task(t).calls = <<>>
                   /\ Task(t).wrote = <<>>
                   /\ Task(t).seen = "decodable" =>
                          /\ Task(t).pc = "done"
                          /\ CacheKey(Task(t).text) \in DOMAIN cache
                          /\ cache[CacheKey(Task(t).text)] = Dumps(Task(t).result)

C5_Witness ==
    /\ ~overwrite
    /\ \E t \in DOMAIN tasks :
           /\ Task(t).seen = "decodable"
           /\ Task(t).pc = "done"
           /\ Task(t).result.flagged
    /\ \E t \in DOMAIN tasks : Task(t).seen = "absent" /\ Task(t).pc = "done"

\* C6: a task writes one cache entry per successful remote call and none
\* otherwise: the entry is keyed by the digest of the submitted text, holds
\* the returned verdict and is in the cache once the task has returned; a
\* task that raised wrote nothing.
C6_WriteOnSuccess ==
    \A t \in DOMAIN tasks :
        /\ Len(Task(t).wrote) = Cardinality(OkCalls(Task(t)))
        /\ Cardinality(OkCalls(Task(t))) <= 1
        /\ OkCalls(Task(t)) # {} =>
               /\ Task(t).pc = "done"
               /\ Task(t).wrote =
                      << <<CacheKey(Task(t).text), Dumps(Task(t).result)>> >>
               /\ CacheKey(Task(t).text) \in DOMAIN cache
               /\ cache[CacheKey(Task(t).text)] = Dumps(Task(t).result)
        /\ Task(t).pc = "raised" => Task(t).wrote = <<>>

C6_Witness ==
    /\ \E t \in DOMAIN tasks :
           /\ Task(t).pc = "done"
           /\ Len(Task(t).calls) >= 2
           /\ Task(t).seen = "absent"
    /\ \E t \in DOMAIN tasks :
           /\ Task(t).pc = "raised"
           /\ Task(t).error \in OpenAIError
           /\ CacheKey(Task(t).text) \notin DOMAIN cache

(***************************************************************************)
(* Properties of the aggregation of run.                                   *)
(***************************************************************************)
\* The record run yielded last.
LastRecord == records[Len(records)]

Chunks == DOMAIN moderations

\* C7: the record of a song is flagged iff some chunk result is flagged, and
\* for each category its score is the largest of the chunk scores and its
\* flag is set iff some chunk result sets it.
C7_AggregationLaws ==
    records # <<>> =>
        /\ LastRecord["song_id"] = song_id
        /\ LastRecord["flagged"] = (\E k \in Chunks : moderations[k].flagged)
        /\ \A c \in Cols :
               /\ \A k \in Chunks :
                      LastRecord[ScoreKey(c)] >= moderations[k].category_scores[c]
               /\ \E k \in Chunks :
                      LastRecord[ScoreKey(c)] = moderations[k].category_scores[c]
               /\ LastRecord[FlagKey(c)] =
                      (\E k \in Chunks : moderations[k].categories[c])

C7_Witness ==
    /\ records # <<>>
    /\ \E i, j \in Chunks :
           /\ ~moderations[i].categories["hate"]
           /\ moderations[j].categories["hate"]
           /\ moderations[j].category_scores["hate"]
                  < moderations[i].category_scores["hate"]
           /\ i < j
    /\ LastRecord["hate_flag"]
    /\ LastRecord["hate_score"] >= 1
    /\ ~LastRecord["flagged"]

\* The service's guarantee on one result: a category flag implies flagged.
FlagImpliesFlagged(r) == (\E c \in Cols : r.categories[c]) => r.flagged

\* C8: when every chunk result satisfies "a category flag implies flagged",
\* so does the record of the song.
C8_RecordFlagImpliesFlagged ==
    (records # <<>> /\ \A k \in Chunks : FlagImpliesFlagged(moderations[k])) =>
        ((\E c \in Cols : LastRecord[FlagKey(c)]) => LastRecord["flagged"])

C8_Witness ==
    /\ records # <<>>
    /\ \A k \in Chunks : FlagImpliesFlagged(moderations[k])
    /\ Len(moderations) >= 2
    /\ ~moderations[1].flagged
    /\ \E c \in Cols : LastRecord[FlagKey(c)]
    /\ LastRecord["flagged"]

\* The list without its i-th element.
Without(l, i) == SubSeq(l, 1, i - 1) \o SubSeq(l, i + 1, Len(l))

\* C9: the record of a list of results is, against the record of the list
\* with any one result left out, nowhere lower in score and keeps every flag
\* that is set.
C9_AggregationMonotone ==
    (records # <<>> /\ Len(moderations) >= 2) =>
        \A i \in Chunks :
            LET smaller == ModerationResult(song_id, Without(moderations, i))
            IN  /\ smaller["flagged"] => LastRecord["flagged"]
                /\ \A c \in Cols :
                       /\ LastRecord[ScoreKey(c)] >= smaller[ScoreKey(c)]
                       /\ smaller[FlagKey(c)] => LastRecord[FlagKey(c)]

C9_Witness ==
    /\ records # <<>>
    /\ Len(moderations) >= 2
    /\ LET smaller == ModerationResult(song_id, Without(moderations, Len(moderations)))
       IN  /\ smaller["hate_flag"]
           /\ smaller["flagged"]
           /\ ~moderations[Len(moderations)].categories["hate"]
           /\ ~moderations[Len(moderations)].flagged
           /\ LastRecord["sexual_score"] > smaller["sexual_score"]

(***************************************************************************)
(* Properties of _chunk_text.                                              *)
(***************************************************************************)
\* The text _chunk_text works on, and the windows it takes from it.
Stripped == Strip(lyrics)

Windows == ChunkWindows(Len(Stripped), chunk_size, slide)

C11_ChunkLengthBound ==
    runState = "gather" =>
        \A k \in DOMAIN tasks : Len(tasks[k].text) <= chunk_size

\* One chunk fills chunk_size and another, cut at a blank, is shorter.
C11_Witness ==
    /\ runState = "gather"
    /\ chunk_size >= 2
    /\ \E k \in DOMAIN tasks : Len(tasks[k].text) = chunk_size
    /\ \E k \in DOMAIN tasks : Len(tasks[k].text) < chunk_size

\* C12 as stated: when the stripped text has at least chunk_size characters,
\* every chunk, the last one included, has exactly chunk_size characters.
C12_EveryChunkFull ==
    (runState = "gather" /\ Len(Stripped) >= chunk_size) =>
        \A k \in DOMAIN tasks : Len(tasks[k].text) = chunk_size

\* C12: when the stripped text has at least chunk_size characters, every
\* window taken from it, the last one included, spans exactly chunk_size
\* characters; the chunk is the window stripped, and has chunk_size
\* characters exactly when the window neither starts nor ends with whitespace.
C12_EveryWindowFull ==
    (runState = "gather" /\ Len(Stripped) >= chunk_size) =>
        /\ Len(tasks) = Len(Windows)
        /\ \A k \in 1..Len(Windows) :
               LET w == Window(Stripped, Windows[k])
               IN  /\ Windows[k][2] - Windows[k][1] = chunk_size
                   /\ Len(w) = chunk_size
                   /\ Len(tasks[k].text) = chunk_size
                          <=> (w[1] \notin Whitespace /\ w[Len(w)] \notin Whitespace)

\* A text with several windows, the last anchored at the end, of which one
\* loses a character to the strip.
C12_Witness ==
    /\ runState = "gather"
    /\ Len(Stripped) > chunk_size
    /\ Len(tasks) >= 2
    /\ Windows[Len(Windows)][1] < Windows[Len(Windows) - 1][1] + slide
    /\ \E k \in DOMAIN tasks : Len(tasks[k].text) < chunk_size

\* C13: a text whose stripped length is positive and below chunk_size gives
\* exactly one chunk, the whole stripped text, whatever the slide.
C13_ShortTextOneChunk ==
    (runState = "gather" /\ Len(Stripped) > 0 /\ Len(Stripped) < chunk_size) =>
        /\ Len(tasks) = 1
        /\ tasks[1].text = Stripped

C13_Witness ==
    /\ runState = "gather"
    /\ lyrics # Stripped
    /\ Len(Stripped) = 2
    /\ Len(Stripped) < chunk_size
    /\ slide < Len(Stripped)
    /\ Len(tasks) = 1

\* A text with no character besides whitespace.
Blank(text) == \A i \in DOMAIN text : text[i] \in Whitespace

\* C18 as stated: every loaded lyrics text gives at least one chunk, and
\* the aggregation is never reached with an empty list of moderations.
C18_AlwaysAChunk ==
    /\ runState = "gather" => tasks # <<>>
    /\ runState = "aggregate" => moderations # <<>>

\* C18: a loaded lyrics text gives at least one chunk exactly when it holds
\* a character that is not whitespace; for an empty or whitespace-only text
\* there is no chunk, the aggregation is reached with an empty list, and it
\* raises ValueError, which it does for no other text.
C18_ChunkUnlessBlank ==
    /\ runState = "gather" => (tasks = <<>> <=> Blank(lyrics))
    /\ runState = "aggregate" => (moderations = <<>> <=> Blank(lyrics))
    /\ exc = "ValueError" => (runState = "raised" /\ Blank(lyrics))
    /\ (runState = "raised" /\ Blank(lyrics)) => exc = "ValueError"

\* The aggregation has raised on a song whose lyrics are blanks.
C18_Witness ==
    /\ runState = "raised"
    /\ exc = "ValueError"
    /\ Len(lyrics) >= 2
    /\ Blank(lyrics)
    /\ records = <<>>

(***************************************************************************)
(* Properties of run: what it yields and how it fails.                     *)
(***************************************************************************)
\* The song ids of the records yielded so far.
RecordedSongs == {records[i]["song_id"] : i \in DOMAIN records}

\* A chunk classification of the current song has used up its retries.
ChunkFailedFatally ==
    \E t \in DOMAIN tasks :
        tasks[t].pc = "raised" /\ tasks[t].error \in OpenAIError

\* The run is past yielding: the gather holds an exception that run raises
\* next or has raised, and neither the current song nor a later one has a
\* record.
RunAborted ==
    /\ runState \in {"gather", "raised"}
    /\ exc \in OpenAIError \cup {"JSONDecodeError"}
    /\ song_id \notin RecordedSongs
    /\ todo \cap RecordedSongs = {}

\* C14: once a chunk classification of a song has failed fatally, run yields
\* no record for that song and none for a later song, its only step left is
\* to raise the gather's exception to its caller, and the records yielded
\* for earlier songs stay as they are.
C14_FatalChunkFailureAbortsRun ==
    [][/\ ChunkFailedFatally' => RunAborted'
       /\ ChunkFailedFatally =>
              /\ ChunkFailedFatally'
              /\ records' = records
              /\ todo' = todo
              /\ song_id' = song_id
              /\ exc' = exc
              /\ runState' # runState => runState' = "raised"]_vars

\* The second chunk of a song has failed after max_retries + 1 calls while
\* the first has returned; run has raised with a song left.
C14_Witness ==
    /\ runState = "raised"
    /\ max_retries = MaxRetries
    /\ todo # {}
    /\ Len(tasks) = 2
    /\ tasks[1].pc = "done"
    /\ tasks[2].pc = "raised"
    /\ tasks[2].error \in Retryable
    /\ Len(tasks[2].calls) = MaxRetries + 1

\* The exceptions of a lyrics load and of a chunk classification.
LoadOrChunkFailure == {"FileNotFoundError", "JSONDecodeError"} \cup OpenAIError

\* run has ended: its for loop is exhausted or it has raised.
RunEnded == runState \in {"finished", "raised"}

\* C15 as stated: a run that ends with no lyrics load and no chunk
\* classification failed has yielded exactly one record for every song id
\* of the service, and none for another id.
C15_OneRecordPerSong ==
    (RunEnded /\ exc \notin LoadOrChunkFailure) =>
        /\ RecordedSongs = Songs
        /\ Len(records) = Cardinality(Songs)

\* C15: run never yields two records for one song id nor a record for an id
\* other than those the loop has taken; a run that ends with no lyrics load
\* and no chunk classification failed has yielded exactly one record for
\* every song id of the service, unless it has met a song whose lyrics hold
\* no character besides whitespace: there the aggregation raises ValueError
\* and that song has no record.
C15_OneRecordPerSongWithText ==
    /\ \A i, j \in DOMAIN records :
           records[i]["song_id"] = records[j]["song_id"] => i = j
    /\ RecordedSongs \subseteq Songs \ todo
    /\ (RunEnded /\ exc \notin LoadOrChunkFailure) =>
           IF runState = "finished"
           THEN /\ RecordedSongs = Songs
                /\ Len(records) = Cardinality(Songs)
           ELSE /\ exc = "ValueError"
                /\ Strip(lyrics) = <<>>
                /\ song_id \notin RecordedSongs

\* A finished run over two songs, the second with two chunks, each song
\* with its own record.
C15_Witness ==
    /\ runState = "finished"
    /\ Len(records) = 2
    /\ records[2]["song_id"] = song_id
    /\ records[1]["song_id"] \in Songs \ {song_id}
    /\ Len(moderations) = 2

\* run has raised the FileNotFoundError of _load_lyrics.
LoadFailed == runState = "raised" /\ exc = "FileNotFoundError"

\* C16 as stated: after the lyrics of a song were found missing, the run can
\* still go on to a remaining song.
C16_CallerCanContinue ==
    (LoadFailed /\ todo # {}) =>
        ENABLED (\E s \in Songs, text \in LyricsPool : Dispatch(s, text))

\* C16: a missing lyrics file ends the run: the FileNotFoundError is raised
\* to run's caller, the song has no record, and from then on run takes no
\* step, so no remaining song gets a record; every song the loop took
\* before has its record.
C16_MissingLyricsEndsRun ==
    [][/\ (Songs \ todo') \ {song_id'} \subseteq RecordedSongs'
       /\ LoadFailed' =>
              /\ song_id' \notin RecordedSongs'
              /\ todo' \cap RecordedSongs' = {}
       /\ ~LoadFailed]_vars

\* The lyrics of the first song are missing and a song is left.
C16_Witness ==
    /\ LoadFailed
    /\ todo # {}
    /\ song_id \in Songs
    /\ records = <<>>

(***************************************************************************)
(* Properties of the parameters of _chunk_text.                            *)
(***************************************************************************)
\* The chunking parameters the constructor is meant to be given.
ValidParams == chunk_size > 0 /\ 0 < slide /\ slide <= chunk_size

\* C17: a service whose chunk_size or slide is invalid (chunk_size <= 0,
\* slide <= 0 or slide > chunk_size) emits no chunk for any text, so it has
\* no task and makes no remote call, and yields no record.
C17_InvalidParametersRejected ==
    ~ValidParams =>
        /\ tasks = <<>>
        /\ \A t \in DOMAIN tasks : Attempts(tasks[t]) = 0
        /\ records = <<>>

(***************************************************************************)
(* Properties of the cache under the concurrency of a run.                 *)
(***************************************************************************)
\* C19 as stated: with overwrite off, at most one remote call succeeds for
\* a chunk text, also when several chunks of one song have that text.
C19_AtMostOneSuccessPerText ==
    ~overwrite =>
        \A t, u \in DOMAIN tasks :
            (/\ Task(t).text = Task(u).text
             /\ OkCalls(Task(t)) # {}
             /\ OkCalls(Task(u)) # {}) => t = u

\* C19: with overwrite off, a remote call succeeds only for a task that
\* found no cache file when it started, and at most once per task; when the
\* service has answered the task's text before, that answer went to another
\* chunk of the same song, which had started before the answer was written.
\* No task of a later song submits the text again.
C19_ResubmittedOnlyBySiblings ==
    [][~overwrite =>
          \A t \in DOMAIN tasks \cap DOMAIN tasks' :
              (Task(t).pc = "call" /\ tasks'[t].pc = "done") =>
                  /\ Task(t).seen = "absent"
                  /\ OkCalls(Task(t)) = {}
                  /\ Task(t).text \in DOMAIN service =>
                         \E u \in DOMAIN tasks \ {t} :
                             /\ Task(u).text = Task(t).text
                             /\ Task(u).seen = "absent"
                             /\ OkCalls(Task(u)) # {}]_vars

\* Two chunks of a song have the same text, and the remote call of each has
\* succeeded while a song is left to come.
C19_Witness ==
    /\ ~overwrite
    /\ todo # {}
    /\ Len(tasks) = 2
    /\ Task(1).text = Task(2).text
    /\ OkCalls(Task(1)) # {}
    /\ OkCalls(Task(2)) # {}

(***************************************************************************)
(* Properties of the backoff.                                              *)
(***************************************************************************)
\* C20: the wait a call of _create_moderation starts after k failed
\* attempts is 2^k seconds plus a jitter in [0, 1), so its whole seconds
\* double from one retry to the next, and an attempt after the first is
\* issued only by a task that comes out of such a wait.
C20_BackoffDoubles ==
    [][/\ \A t \in DOMAIN tasks' :
              tasks'[t].pc = "sleep" =>
                  LET k == Len(tasks'[t].calls)
                  IN  /\ k >= 1
                      /\ \A i \in 1..k : tasks'[t].calls[i] \in OpenAIError
                      /\ tasks'[t].delay \div 1000 = 2 ^ k
                      /\ tasks'[t].delay % 1000 \in 0..999
                      /\ tasks'[t].delay >= 2 ^ k * 1000
                      /\ tasks'[t].delay < (2 ^ k + 1) * 1000
       /\ \A t \in DOMAIN tasks \cap DOMAIN tasks' :
              (/\ Attempts(Task(t)) >= 1
               /\ Attempts(tasks'[t]) > Attempts(Task(t))) =>
                  /\ Task(t).pc = "sleep"
                  /\ Task(t).delay >= 2 ^ Attempts(Task(t)) * 1000
                  /\ Attempts(tasks'[t]) = Attempts(Task(t)) + 1]_vars

\* After MaxSleeps failed attempts the call waits 2^MaxSleeps seconds and
\* nearly one more.
C20_Witness ==
    /\ Len(tasks) = 1
    /\ Task(1).pc = "sleep"
    /\ Len(Task(1).calls) = MaxSleeps
    /\ Task(1).n_retries = MaxSleeps
    /\ Task(1).delay = 2 ^ MaxSleeps * 1000 + 999

(***************************************************************************)
(* Properties of the gather and of the order of the songs.                 *)
(***************************************************************************)
\* A task that has neither returned nor raised.
InFlight(task) == task.pc \notin {"done", "raised"}

\* C21: run goes on past the gather of a song, to yield or to raise, only
\* when every task of the song has returned or raised: whenever run is not
\* waiting in the gather, no task is in flight.
C21_RunWaitsForEveryTask ==
    runState # "gather" => \A t \in DOMAIN tasks : ~InFlight(Task(t))

C23_OneSongAtATime ==
    [][/\ song_id' # song_id =>
              /\ tasks = <<>>
              /\ song_id # None =>
                     /\ records # <<>>
                     /\ records[Len(records)]["song_id"] = song_id
              /\ Len(records) = Cardinality(Songs \ todo)
       /\ runState' = "gather" =>
              LET chunks == ChunkText(lyrics', chunk_size', slide')
              IN  /\ Len(tasks') = Len(chunks)
                  /\ \A t \in DOMAIN tasks' : tasks'[t].text = chunks[t]
       /\ \A t \in DOMAIN tasks' :
              InFlight(tasks'[t]) => song_id' \notin RecordedSongs']_vars

\* The first song has its record and the two chunks of the second are
\* being classified.
C23_Witness ==
    /\ runState = "gather"
    /\ Len(records) = 1
    /\ song_id \notin RecordedSongs
    /\ Len(tasks) = 2
    /\ Task(1).pc = "call"
    /\ Task(2).pc = "call"

(***************************************************************************)
(* The sequence of chunks, stated without the loop.                        *)
(***************************************************************************)
\* The strides k with k * slide + chunk_size < L, L the stripped length:
\* they are 0 .. StrideCount - 1.
StrideCount ==
    Cardinality({k \in 0..Len(Stripped) : k * slide + chunk_size < Len(Stripped)})

\* text[k * slide : k * slide + chunk_size] of the stripped text.
StrideWindow(k) == SubSeq(Stripped, k * slide + 1, k * slide + chunk_size)

\* The last chunk_size characters of the stripped text, all of it when it
\* has no more than chunk_size.
FinalWindow ==
    SubSeq(Stripped, Max(Len(Stripped) - chunk_size, 0) + 1, Len(Stripped))

\* C24 as stated: for a text of stripped length L > 0 the chunks are the
\* windows at the strides k with k * slide + chunk_size < L, then the final
\* window, and nothing more.
C24_ChunksAreWindows ==
    (runState = "gather" /\ Len(Stripped) > 0) =>
        /\ Len(tasks) = StrideCount + 1
        /\ \A k \in 0..(StrideCount - 1) : tasks[k + 1].text = StrideWindow(k)
        /\ tasks[StrideCount + 1].text = FinalWindow

\* C24: for a text of stripped length L > 0 the chunks are, each stripped
\* of the whitespace at its ends, the windows at the strides k with
\* k * slide + chunk_size < L, in order, then the final window, and nothing
\* more.
C24_ChunksAreStrippedWindows ==
    (runState = "gather" /\ Len(Stripped) > 0) =>
        /\ Len(tasks) = StrideCount + 1
        /\ \A k \in 0..(StrideCount - 1) :
               /\ Len(StrideWindow(k)) = chunk_size
               /\ tasks[k + 1].text = Strip(StrideWindow(k))
        /\ tasks[StrideCount + 1].text = Strip(FinalWindow)

\* Two strided windows and a final window that starts off the stride, in a
\* text that was stripped and of which a chunk lost a blank.
C24_Witness ==
    /\ runState = "gather"
    /\ lyrics # Stripped
    /\ StrideCount = 2
    /\ Len(tasks) = 3
    /\ (Len(Stripped) - chunk_size) % slide # 0
    /\ tasks[3].text = Strip(FinalWindow)
    /\ tasks[2].text # StrideWindow(1)

(***************************************************************************)
(* The record and the order of the results.                                *)
(***************************************************************************)
\* The results in another order: position k holds the result of chunk p[k].
Reordered(p) == [k \in DOMAIN moderations |-> moderations[p[k]]]

\* What the classification of a chunk text gives once its task has
\* returned: the result stored in the cache file of the text.
StoredResult(text) == Loads(cache[CacheKey(text)])

\* C25: the record of a song does not depend on the order in which its
\* tasks complete.  Under every interleaving the result of a chunk is the
\* one stored for its text, so the list gather returns is the same; and
\* the record is the same for every order of that list: flagged, the
\* category scores and the category flags.
C25_RecordOrderIndependent ==
    (runState \in {"idle", "finished"} /\ records # <<>>) =>
        LET chunks == ChunkText(lyrics, chunk_size, slide)
        IN  /\ LastRecord["song_id"] = song_id
            /\ Len(moderations) = Len(chunks)
            /\ \A k \in DOMAIN moderations :
                   moderations[k] = StoredResult(chunks[k])
            /\ \A p \in Permutations(DOMAIN moderations) :
                   ModerationResult(song_id, Reordered(p)) = LastRecord

\* The record of a song of two chunks whose results differ in flagged, in a
\* score and in a flag.
C25_Witness ==
    /\ runState = "idle"
    /\ records # <<>>
    /\ Len(moderations) = 2
    /\ moderations[1].flagged # moderations[2].flagged
    /\ moderations[1].category_scores["hate"] < moderations[2].category_scores["hate"]
    /\ ~moderations[1].categories["hate"]
    /\ moderations[2].categories["hate"]
    /\ LastRecord["flagged"]
    /\ LastRecord["hate_score"] = MaxScore

(***************************************************************************)
(* Termination.                                                            *)
(***************************************************************************)
\* C26: every _create_moderation call issues at most max_retries + 1 remote
\* calls, and, when every remote call is answered or fails and every sleep
\* ends, the pipeline comes to rest: every task has returned or raised and
\* run has finished or raised.
C26_Termination ==
    /\ [](\A t \in DOMAIN tasks : Attempts(Task(t)) <= max_retries + 1)
    /\ <>[](RunEnded /\ \A t \in DOMAIN tasks : ~InFlight(Task(t)))

\* run has raised after a task used up max_retries + 1 calls, and the other
\* task of the song, left running, has returned after a retry.
C26_Witness ==
    /\ runState = "raised"
    /\ max_retries = MaxRetries
    /\ Len(tasks) = 2
    /\ Task(1).pc = "raised"
    /\ Len(Task(1).calls) = MaxRetries + 1
    /\ Task(2).pc = "done"
    /\ Len(Task(2).calls) = 2
    /\ Task(2).wrote # <<>>

=============================================================================
